---------------------------- MODULE Spec2Model ----------------------------
(***************************************************************************)
(* Model of services/pgadmin/servers.py: a module whose body is a          *)
(* docstring and one assignment, SERVERS = { '1': { ... } }.               *)
(*                                                                         *)
(* The state is the module's namespace and the dictionaries under          *)
(* construction while the dict display on lines 6-19 is evaluated (key /   *)
(* datum pairs are evaluated left to right, the name SERVERS is bound      *)
(* only once the whole display has been built).  After the import, the     *)
(* only thing that happens to the registry is that it is read by           *)
(* subscription, SERVERS[k] and SERVERS[k][f].                             *)
(*                                                                         *)
(* A Python value is a record [type, val]; a dict's val is a function      *)
(* from key values to values, so that 1 and '1' are different keys.        *)
(***************************************************************************)
EXTENDS Integers, Sequences, FiniteSets, TLC

VARIABLES
    pc,        \* position in the module body: "start", "display", "done"
    globals,   \* the module namespace: name -> value
    outer,     \* the registry dict under construction (lines 6-19)
    inner,     \* the profile dict under construction (lines 7-18)
    i,         \* index of the profile being built in the outer display
    j,         \* number of key/datum pairs already put into inner
    key,       \* the last subscription's profile key
    field,     \* the last subscription's field key (Absent: whole record)
    result     \* the last subscription's outcome

vars == <<pc, globals, outer, inner, i, j, key, field, result>>

\* ------------------------------------------------------------ Python values

PyStr(s)  == [type |-> "str",  val |-> s]
PyInt(n)  == [type |-> "int",  val |-> n]
PyBool(b) == [type |-> "bool", val |-> b]
PyDict(f) == [type |-> "dict", val |-> f]
\* No value: an unset variable, or no field key in a subscription.
Absent == [type |-> "absent", val |-> ""]

EmptyDict == [k \in {} |-> Absent]

\* d[k] = v on a dict under construction: a repeated key overwrites.
DictSet(f, k, v) == (k :> v) @@ f

\* d[k]: the value, or KeyError(k).
GetItem(d, k) ==
    IF k \in DOMAIN d.val
    THEN [kind |-> "value", val |-> d.val[k]]
    ELSE [kind |-> "KeyError", val |-> k]

\* ------------------------------------------------------ the module's source

Docstring ==
    PyStr("\nPgAdmin servers configuration\nAutomatically connects to PostgreSQL database\n")

ProfileKey == PyStr("1")

Name == PyStr("nba-stats-db")

GroupName == PyStr("Servers")

\* Faulty variant: the host of a local installation instead of the service name.
HostLocalhost == PyStr("localhost")
Host == PyStr("postgres")

\* Faulty variant: a port above 65535.
PortOutOfRange == PyInt(99999)
Port == PyInt(5432)

MaintenanceDb == PyStr("postgres")

\* Faulty variant: the username left blank.
UsernameEmpty == PyStr("")
Username == PyStr("postgres")

Password == PyStr("postgres")

\* Faulty variant: a misspelt ssl mode.
SslModeUnrecognized == PyStr("preferred")
SslMode == PyStr("prefer")

\* Faulty variant: a zero timeout.
ConnectTimeoutZero == PyInt(0)
ConnectTimeout == PyInt(10)

\* Faulty variant: save_password switched off with the password kept.
SavePasswordOff == PyBool(FALSE)
SavePassword == PyBool(TRUE)

\* Faulty variant: the same display with the profile id repeated as a field of the record.
ProfileItemsWithId ==
    << <<PyStr("id"), PyStr("1")>>,
       <<PyStr("name"), Name>>,
       <<PyStr("group_name"), GroupName>>,
       <<PyStr("host"), Host>>,
       <<PyStr("port"), Port>>,
       <<PyStr("maintenance_db"), MaintenanceDb>>,
       <<PyStr("username"), Username>>,
       <<PyStr("password"), Password>>,
       <<PyStr("ssl_mode"), SslMode>>,
       <<PyStr("connect_timeout"), ConnectTimeout>>,
       <<PyStr("save_password"), SavePassword>> >>

\* The key/datum pairs of the inner display, in source order.
ProfileItems ==
    << <<PyStr("name"), Name>>,
       <<PyStr("group_name"), GroupName>>,
       <<PyStr("host"), Host>>,
       <<PyStr("port"), Port>>,
       <<PyStr("maintenance_db"), MaintenanceDb>>,
       <<PyStr("username"), Username>>,
       <<PyStr("password"), Password>>,
       <<PyStr("ssl_mode"), SslMode>>,
       <<PyStr("connect_timeout"), ConnectTimeout>>,
       <<PyStr("save_password"), SavePassword>> >>

\* Faulty variant: a second profile pasted under the key of the first.
RegistryItemsDuplicateKey ==
    << <<ProfileKey, ProfileItems>>, <<ProfileKey, ProfileItems>> >>

\* The key/datum pairs of the outer display, in source order.
RegistryItems == << <<ProfileKey, ProfileItems>> >>

\* ------------------------------------------------------------------ bounds

MaxKey == 3

\* Keys a reader may subscript the registry with: strings and integers.
LookupKeys ==
    {PyStr("")} \cup {PyStr(ToString(n)) : n \in 0..MaxKey} \cup {PyInt(n) : n \in 0..MaxKey}

\* Field keys a reader may subscript a profile with; Absent reads the record.
LookupFields ==
    {ProfileItems[n][1] : n \in 1..Len(ProfileItems)} \cup {PyStr("id"), Absent}

\* -------------------------------------------------------------------- Init

NoResult == [kind |-> "none", val |-> Absent]

Init ==
    /\ pc = "start"
    /\ globals = [n \in {} |-> Absent]
    /\ outer = EmptyDict
    /\ inner = EmptyDict
    /\ i = 1
    /\ j = 0
    /\ key = Absent
    /\ field = Absent
    /\ result = NoResult

\* ----------------------------------------------------------------- actions

\* Lines 1-4: the module docstring is bound to __doc__.
ExecDocstring ==
    /\ pc = "start"
    /\ globals' = ("__doc__" :> Docstring) @@ globals
    /\ pc' = "display"
    /\ UNCHANGED <<outer, inner, i, j, key, field, result>>

\* Lines 8-17: the next key/datum pair of the profile display is evaluated
\* and put into the profile dict.
BuildField ==
    /\ pc = "display"
    /\ i <= Len(RegistryItems)
    /\ j < Len(RegistryItems[i][2])
    /\ inner' = DictSet(inner, RegistryItems[i][2][j + 1][1], RegistryItems[i][2][j + 1][2])
    /\ j' = j + 1
    /\ UNCHANGED <<pc, globals, outer, i, key, field, result>>

\* Lines 7, 18: the finished profile dict is put into the registry dict
\* under the profile key.
BuildProfile ==
    /\ pc = "display"
    /\ i <= Len(RegistryItems)
    /\ j = Len(RegistryItems[i][2])
    /\ outer' = DictSet(outer, RegistryItems[i][1], PyDict(inner))
    /\ inner' = EmptyDict
    /\ i' = i + 1
    /\ j' = 0
    /\ UNCHANGED <<pc, globals, key, field, result>>

\* Lines 6, 19: the finished registry dict is bound to the name SERVERS.
StoreName ==
    /\ pc = "display"
    /\ i > Len(RegistryItems)
    /\ globals' = ("SERVERS" :> PyDict(outer)) @@ globals
    /\ pc' = "done"
    /\ UNCHANGED <<outer, inner, i, j, key, field, result>>

Import == ExecDocstring \/ BuildField \/ BuildProfile \/ StoreName

\* A reader subscripts the imported registry: SERVERS[k] when f is Absent,
\* SERVERS[k][f] otherwise.  A missing key raises KeyError.
Lookup(k, f) ==
    /\ pc = "done"
    /\ key' = k
    /\ field' = f
    /\ LET profile == GetItem(globals["SERVERS"], k)
       IN  result' = IF f = Absent \/ profile.kind = "KeyError"
                     THEN profile
                     ELSE GetItem(profile.val, f)
    /\ UNCHANGED <<pc, globals, outer, inner, i, j>>

Next ==
    \/ ExecDocstring
    \/ BuildField
    \/ BuildProfile
    \/ StoreName
    \/ \E k \in LookupKeys, f \in LookupFields : Lookup(k, f)

Spec == Init /\ [][Next]_vars


\* ------------------------------------------------------------- observation

\* The name SERVERS is bound in the module namespace.
Loaded == "SERVERS" \in DOMAIN globals

\* The registry mapping bound to SERVERS: profile key -> profile dict.
Registry == globals["SERVERS"].val

\* The last subscription was SERVERS[k][f] and returned a value.
Got(k, f) ==
    /\ Loaded
    /\ key = PyStr(k)
    /\ field = PyStr(f)
    /\ result.kind = "value"

\* ------------------------------------------------------------------ claims

\* C1: for every entry of the SERVERS registry, the value of 'port' is an
\* integer in the closed range 1..65535.
C1_PortInRange ==
    Loaded =>
        \A k \in DOMAIN Registry :
            LET p == Registry[k].val
            IN  /\ PyStr("port") \in DOMAIN p
                /\ p[PyStr("port")].type = "int"
                /\ p[PyStr("port")].val \in 1..65535

C1_Witness ==
    /\ Got("1", "port")
    /\ result.val.type = "int"
    /\ result.val.val = 5432

\* C2: for every entry of the SERVERS registry, the value of 'ssl_mode' is
\* one of the six recognized strings disable, allow, prefer, require,
\* verify-ca, verify-full.
C2_SslModeRecognized ==
    Loaded =>
        \A k \in DOMAIN Registry :
            LET p == Registry[k].val
            IN  /\ PyStr("ssl_mode") \in DOMAIN p
                /\ p[PyStr("ssl_mode")].type = "str"
                /\ p[PyStr("ssl_mode")].val \in
                       {"disable", "allow", "prefer", "require", "verify-ca", "verify-full"}

C2_Witness ==
    /\ Got("1", "ssl_mode")
    /\ result.val.type = "str"
    /\ result.val.val = "prefer"

\* C3: for every entry of the SERVERS registry, the value of
\* 'connect_timeout' is an integer strictly greater than 0.
C3_ConnectTimeoutPositive ==
    Loaded =>
        \A k \in DOMAIN Registry :
            LET p == Registry[k].val
            IN  /\ PyStr("connect_timeout") \in DOMAIN p
                /\ p[PyStr("connect_timeout")].type = "int"
                /\ p[PyStr("connect_timeout")].val > 0

C3_Witness ==
    /\ Got("1", "connect_timeout")
    /\ result.val.type = "int"
    /\ result.val.val = 10

\* C4: for every entry of the SERVERS registry, a 'password' field is
\* present only if that entry's 'save_password' is true: no entry carries a
\* password while save_password is false or absent.
C4_PasswordOnlyIfSaved ==
    Loaded =>
        \A k \in DOMAIN Registry :
            LET p == Registry[k].val
            IN  PyStr("password") \in DOMAIN p =>
                    /\ PyStr("save_password") \in DOMAIN p
                    /\ p[PyStr("save_password")].type = "bool"
                    /\ p[PyStr("save_password")].val = TRUE

C4_Witness ==
    /\ Got("1", "password")
    /\ result.val.type = "str"
    /\ Registry[PyStr("1")].val[PyStr("save_password")].type = "bool"
    /\ Registry[PyStr("1")].val[PyStr("save_password")].val = TRUE

\* C5: loading the registry as shipped succeeds without error (the import
\* is never stuck before SERVERS is bound) and yields exactly one profile,
\* stored under key "1", whose name is "nba-stats-db", host is "postgres",
\* port is 5432, ssl_mode is "prefer", connect_timeout is 10 and
\* save_password is true.
C5_ShippedRegistryLoads ==
    /\ pc # "done" => ENABLED Import
    /\ pc = "done" =>
        /\ Loaded
        /\ DOMAIN Registry = {PyStr("1")}
        /\ LET p == Registry[PyStr("1")].val
               Is(f, t, x) ==
                   /\ PyStr(f) \in DOMAIN p
                   /\ p[PyStr(f)].type = t
                   /\ p[PyStr(f)].val = x
           IN  /\ Is("name", "str", "nba-stats-db")
               /\ Is("host", "str", "postgres")
               /\ Is("port", "int", 5432)
               /\ Is("ssl_mode", "str", "prefer")
               /\ Is("connect_timeout", "int", 10)
               /\ Is("save_password", "bool", TRUE)

C5_Witness ==
    /\ pc = "done"
    /\ Loaded
    /\ key = PyStr("1")
    /\ field = Absent
    /\ result.kind = "value"
    /\ result.val.type = "dict"
    /\ result.val.val[PyStr("name")].val = "nba-stats-db"

\* C7: the profile identifiers (the keys of the SERVERS mapping) are
\* non-empty strings and are unique across the registry: no two profiles
\* written in the display share an id, so each has an entry of its own.
C7_KeysNonEmptyUnique ==
    Loaded =>
        /\ \A k \in DOMAIN Registry : k.type = "str" /\ k.val # ""
        /\ Cardinality(DOMAIN Registry) = Len(RegistryItems)
        /\ \A m, n \in 1..Len(RegistryItems) :
               RegistryItems[m][1] = RegistryItems[n][1] => m = n

C7_Witness ==
    /\ Loaded
    /\ Cardinality(DOMAIN Registry) = 1
    /\ key = PyStr("")
    /\ result.kind = "KeyError"

\* C9: for every entry of the SERVERS registry, the fields name,
\* group_name, host, maintenance_db and username are all non-empty strings.
C9_TextFieldsNonEmpty ==
    Loaded =>
        \A k \in DOMAIN Registry :
            \A f \in {"name", "group_name", "host", "maintenance_db", "username"} :
                LET p == Registry[k].val
                IN  /\ PyStr(f) \in DOMAIN p
                    /\ p[PyStr(f)].type = "str"
                    /\ p[PyStr(f)].val # ""

C9_Witness ==
    /\ Got("1", "username")
    /\ result.val.type = "str"
    /\ result.val.val = "postgres"

\* C10: every entry of the SERVERS registry defines exactly the ten record
\* fields name, group_name, host, port, maintenance_db, username, password,
\* ssl_mode, connect_timeout and save_password (none missing, none extra),
\* with port and connect_timeout integers and save_password a boolean; the
\* profile id is carried only by the mapping key, not by a field of the
\* record.
C10_ExactlyTenFields ==
    Loaded =>
        \A k \in DOMAIN Registry :
            LET p == Registry[k].val
            IN  /\ DOMAIN p =
                       {PyStr(f) : f \in {"name", "group_name", "host", "port",
                                          "maintenance_db", "username", "password",
                                          "ssl_mode", "connect_timeout", "save_password"}}
                /\ Cardinality(DOMAIN p) = 10
                /\ p[PyStr("port")].type = "int"
                /\ p[PyStr("connect_timeout")].type = "int"
                /\ p[PyStr("save_password")].type = "bool"
                /\ PyStr("id") \notin DOMAIN p

C10_Witness ==
    /\ Loaded
    /\ key = PyStr("1")
    /\ field = PyStr("id")
    /\ result.kind = "KeyError"

=============================================================================
